---- MODULE Spec2Model ----
(***************************************************************************)
(* Model of src/app.py (Smart Invoice Extractor): the normalization of one *)
(* decoded invoice payload (validate_invoice_data), the batch loop          *)
(* (process_invoices), the credential handling and the main script that    *)
(* runs the batch and then the auto-validate pass over the result table.   *)
(*                                                                         *)
(* Amounts are modelled as integers (whole currency units); the decimal    *)
(* point and exponent syntax of float() are outside the model.             *)
(***************************************************************************)
EXTENDS Integers, Sequences, FiniteSets, TLC

(***************************************************************************)
(* Python values that can sit in an amount field of a decoded payload.     *)
(* Every value is a record of the same shape: t is the kind, n the number  *)
(* (kind "num"; sign for kind "inf"), s the characters (kind "str").       *)
(***************************************************************************)
V(t, n, s) == [t |-> t, n |-> n, s |-> s]

\* the key is not in the dict
Absent == V("absent", 0, <<>>)

\* JSON null, Python None
Null == V("null", 0, <<>>)

\* a finite number (JSON number, or the float made of one)
Num(n) == V("num", n, <<>>)

\* float('inf') for sign 1, float('-inf') for sign -1
Inf(sign) == V("inf", sign, <<>>)

\* float('nan'); also the value pandas gives a missing cell
NaN == V("nan", 0, <<>>)

\* a JSON string, as its sequence of characters
Str(s) == V("str", 0, s)

\* data_dict.get(key): None when the key is absent
Get(d, key) == IF d[key] = Absent THEN Null ELSE d[key]

\* Python truthiness, as tested by `if data_dict.get(key)` and by `or`
Truthy(v) ==
    CASE v.t = "absent" -> FALSE
      [] v.t = "null"   -> FALSE
      [] v.t = "num"    -> v.n # 0
      [] v.t = "inf"    -> TRUE
      [] v.t = "nan"    -> TRUE
      [] v.t = "str"    -> v.s # <<>>

\* Python `a or b`
OrElse(a, b) == IF Truthy(a) THEN a ELSE b

(***************************************************************************)
(* float(x) on a string: optional sign, then decimal digits, "inf" or      *)
(* "nan"; anything else raises ValueError.                                 *)
(***************************************************************************)
DigitChars == <<"0", "1", "2", "3", "4", "5", "6", "7", "8", "9">>

IsDigit(c) == \E k \in 1..Len(DigitChars) : DigitChars[k] = c

DigitVal(c) == (CHOOSE k \in 1..Len(DigitChars) : DigitChars[k] = c) - 1

StrSign(s) == IF Len(s) > 0 /\ s[1] = "-" THEN -1 ELSE 1

StrBody(s) == IF Len(s) > 0 /\ s[1] \in {"-", "+"} THEN Tail(s) ELSE s

IsDigits(s) == Len(s) > 0 /\ \A k \in 1..Len(s) : IsDigit(s[k])

RECURSIVE ParseDigits(_)
ParseDigits(s) ==
    IF s = <<>> THEN 0
    ELSE 10 * ParseDigits(SubSeq(s, 1, Len(s) - 1)) + DigitVal(s[Len(s)])

\* float(x) raises (ValueError for a string that is no number)
FloatRaises(v) ==
    \/ v.t \in {"absent", "null"}
    \/ /\ v.t = "str"
       /\ ~IsDigits(StrBody(v.s))
       /\ StrBody(v.s) # <<"i", "n", "f">>
       /\ StrBody(v.s) # <<"n", "a", "n">>

\* float(x) when it does not raise
Float(v) ==
    IF v.t # "str" THEN v
    ELSE IF IsDigits(StrBody(v.s)) THEN Num(StrSign(v.s) * ParseDigits(StrBody(v.s)))
    ELSE IF StrBody(v.s) = <<"i", "n", "f">> THEN Inf(StrSign(v.s))
    ELSE NaN

\* Python == 0 on a float
EqZero(a) == a.t = "num" /\ a.n = 0

\* Python a < b on floats: false whenever either side is nan
Less(a, b) ==
    CASE a.t = "nan" \/ b.t = "nan" -> FALSE
      [] a.t = "num" /\ b.t = "num" -> a.n < b.n
      [] a.t = "num" /\ b.t = "inf" -> b.n = 1
      [] a.t = "inf" /\ b.t = "num" -> a.n = -1
      [] a.t = "inf" /\ b.t = "inf" -> a.n < b.n

(***************************************************************************)
(* validate_invoice_data                                                   *)
(***************************************************************************)
Amounts ==
    <<"subtotal_amount", "tax_amount", "discount_amount", "total_amount", "amount_due">>

\* the conversion loop from its k-th key on: the dict it leaves and whether
\* float() raised (the loop stops at the key that raises)
RECURSIVE ConvertAmounts(_, _)
ConvertAmounts(d, k) ==
    IF k > Len(Amounts) THEN [d |-> d, raised |-> FALSE]
    ELSE LET key == Amounts[k] IN
         IF ~Truthy(Get(d, key)) THEN ConvertAmounts(d, k + 1)
         ELSE IF FloatRaises(d[key]) THEN [d |-> d, raised |-> TRUE]
         ELSE ConvertAmounts([d EXCEPT ![key] = Float(d[key])], k + 1)

\* the if/elif/else that sets payment_status
PaymentStatus(due, total) ==
    IF EqZero(due) THEN "paid"
    ELSE IF Less(due, total) THEN "partial"
    ELSE "unpaid"

\* the whole function: an exception anywhere in the try block is logged and
\* the dict is returned as the block left it
validate_invoice_data(d) ==
    LET c == ConvertAmounts(d, 1) IN
    IF c.raised THEN c.d
    ELSE LET total == OrElse(Get(c.d, "total_amount"), Num(0))
             due   == OrElse(Get(c.d, "amount_due"), total)
         IN  [c.d EXCEPT !["payment_status"] = PaymentStatus(due, total)]

(***************************************************************************)
(* Decoded payloads.  A payload is the dict json.loads returns for a JSON  *)
(* object: the five amount fields and payment_status (the string "absent"  *)
(* when the key is missing, "nan" for a missing cell of the result table), *)
(* and source_file (0 until process_invoices tags the record).             *)
(***************************************************************************)
Payload(sub, tax, disc, total, due, status) ==
    [subtotal_amount |-> sub, tax_amount |-> tax, discount_amount |-> disc,
     total_amount |-> total, amount_due |-> due, payment_status |-> status,
     source_file |-> 0]

EmptyPayload == Payload(Absent, Absent, Absent, Absent, Absent, "absent")

\* the text extract_invoice_data returns, by what json.loads makes of it:
\* "object" (a JSON object without the key "error", decoding to d), "error"
\* (a JSON object with the key "error" and message msg), "list" (valid JSON
\* that is no object), "invalid" (json.loads raises)
Json(kind, d, msg) == [kind |-> kind, d |-> d, msg |-> msg]

NoJson == Json("none", EmptyPayload, "")

\* json.dumps({"error": msg})
ErrorJson(msg) == Json("error", EmptyPayload, msg)

(***************************************************************************)
(* Bounds of the batch model                                               *)
(***************************************************************************)
MaxFiles == 3

\* payloads the AI service returns in the batch model
BatchTotals == {Null, Num(100)}

BatchDues == {Absent, Num(40)}

BatchPayloads ==
    {Payload(Absent, Absent, Absent, t, d, "partial") : t \in BatchTotals, d \in BatchDues}

\* what the remote call does for one file: it raises, or it answers with a
\* text of one of the four kinds
AIOutcomes ==
    {Json("raises", EmptyPayload, ""), Json("invalid", EmptyPayload, ""),
     Json("list", EmptyPayload, ""), Json("error", EmptyPayload, "model error")}
    \cup {Json("object", p, "") : p \in BatchPayloads}

(***************************************************************************)
(* State                                                                   *)
(***************************************************************************)
VARIABLES
    client,          \* "groq" or "none" (client is None)
    uploaded_files,  \* the uploaded files, by name (1..N in upload order)
    auto_validate,   \* the sidebar checkbox
    pc,              \* "main", "loop", "returned", "shown", "stopped", "idle"
    i,               \* 1-based index of the file the loop is at
    fstate,          \* per file: Pending, TextExtracted, AIResponseReceived,
                     \* Parsed, Appended or Failed
    cur,             \* extracted_json, then data_dict, of the current file
    data,            \* the list of records
    processed_files, \* the success counter
    errors,          \* st.error messages: [file, reason], file 0 = no name
    log,             \* logger.error / logger.info entries
    apiCalls,        \* calls of client.chat.completions.create
    progress,        \* files counted by progress_bar.progress
    df,              \* the result table (rows), <<>> before it is built
    outcome,         \* history, per file: "pending", "read_raises", "api_raises",
                     \* or the kind of text the service answered with
    attempts,        \* history, per file: times the iteration was started
    vraw,            \* normalization model: the raw payload
    vrec,            \* normalization model: results of the applications so far
    vcount,          \* normalization model: applications done
    full_response,   \* response model: the answer of the service in this iteration
    json_string,     \* response model: the text extract_invoice_data returned
    rfile            \* history: the file the answer was for, 0 for none

vars == <<client, uploaded_files, auto_validate, pc, i, fstate, cur, data,
          processed_files, errors, log, apiCalls, progress, df, outcome, attempts,
          vraw, vrec, vcount, full_response, json_string, rfile>>

batchVars == <<client, uploaded_files, auto_validate, pc, i, fstate, cur, data,
               processed_files, errors, log, apiCalls, progress, df, outcome, attempts>>

validateVars == <<vraw, vrec, vcount>>

textVars == <<full_response, json_string, rfile>>

Terminal == {"Appended", "Failed"}

N == Len(uploaded_files)

(***************************************************************************)
(* Credential handling (module level)                                      *)
(***************************************************************************)
\* api_key: from st.secrets, else from the environment, else the placeholder
ApiKey(secret, env) ==
    IF secret # "" THEN secret ELSE IF env # "" THEN env ELSE "demo-key-placeholder"

\* client: None for the placeholder or when the constructor raises
Client(secret, env, ctorRaises) ==
    IF ApiKey(secret, env) = "demo-key-placeholder" \/ ctorRaises THEN "none" ELSE "groq"

(***************************************************************************)
(* extract_invoice_data: the text returned, whether the service was called *)
(* and the st.error messages shown                                         *)
(***************************************************************************)
extract_invoice_data(cl, answer) ==
    IF cl = "none"
    THEN [json |-> ErrorJson("API key not configured"), called |-> FALSE,
          shown |-> <<[file |-> 0, reason |-> "API key not configured"]>>]
    ELSE IF answer.kind = "raises"
    THEN [json |-> ErrorJson("API call failed"), called |-> TRUE, shown |-> <<>>]
    ELSE [json |-> answer, called |-> TRUE, shown |-> <<>>]

(***************************************************************************)
(* The result table: pd.DataFrame(data) and df.apply(..., axis=1)          *)
(***************************************************************************)
\* a column exists when some record has the key
ColumnExists(rows, key) == \E r \in 1..Len(rows) : rows[r][key] # Absent

\* a column of numbers, None and missing cells is made a float column
ColumnNumeric(rows, key) ==
    /\ \A r \in 1..Len(rows) : rows[r][key].t \in {"absent", "null", "num", "inf", "nan"}
    /\ \E r \in 1..Len(rows) : rows[r][key].t \in {"absent", "num", "inf", "nan"}

\* the cell of row r: NaN where the record has no such key, and where it has
\* None in a float column
Cell(rows, r, key) ==
    LET v == rows[r][key] IN
    IF ~ColumnExists(rows, key) THEN Absent
    ELSE IF v.t = "absent" THEN NaN
    ELSE IF v.t = "null" /\ ColumnNumeric(rows, key) THEN NaN
    ELSE v

\* the payment_status cell: NaN where the record has no such key
StatusCell(rows, r) ==
    IF rows[r].payment_status # "absent" THEN rows[r].payment_status
    ELSE IF \E q \in 1..Len(rows) : rows[q].payment_status # "absent" THEN "nan"
    ELSE "absent"

\* pd.DataFrame(data), as its sequence of rows
DataFrame(rows) ==
    [r \in 1..Len(rows) |->
        [subtotal_amount |-> Cell(rows, r, "subtotal_amount"),
         tax_amount      |-> Cell(rows, r, "tax_amount"),
         discount_amount |-> Cell(rows, r, "discount_amount"),
         total_amount    |-> Cell(rows, r, "total_amount"),
         amount_due      |-> Cell(rows, r, "amount_due"),
         payment_status  |-> StatusCell(rows, r),
         source_file     |-> rows[r].source_file]]

\* df.apply(validate_invoice_data, axis=1)
ApplyValidate(frame) == [r \in 1..Len(frame) |-> validate_invoice_data(frame[r])]

(***************************************************************************)
(* Initial state of one script run                                         *)
(***************************************************************************)
Init ==
    /\ \E secret \in {"", "gsk"}, env \in {"", "gsk"}, ctorRaises \in BOOLEAN :
          client = Client(secret, env, ctorRaises)
    /\ \E n \in 0..MaxFiles : uploaded_files = [k \in 1..n |-> k]
    /\ auto_validate \in BOOLEAN
    /\ pc = "main"
    /\ i = 1
    /\ fstate = [k \in 1..Len(uploaded_files) |-> "Pending"]
    /\ cur = NoJson
    /\ data = <<>>
    /\ processed_files = 0
    /\ errors = <<>>
    /\ log = <<>>
    /\ apiCalls = 0
    /\ progress = 0
    /\ df = <<>>
    /\ outcome = [k \in 1..Len(uploaded_files) |-> "pending"]
    /\ attempts = [k \in 1..Len(uploaded_files) |-> 0]
    /\ vraw = EmptyPayload
    /\ vrec = <<>>
    /\ vcount = 0
    /\ full_response = <<>>
    /\ json_string = <<>>
    /\ rfile = 0

(***************************************************************************)
(* Main script: `if uploaded_files:` down to the call of process_invoices  *)
(***************************************************************************)
\* no file uploaded: nothing runs
MainNoFiles ==
    /\ pc = "main"
    /\ N = 0
    /\ pc' = "idle"
    /\ UNCHANGED <<client, uploaded_files, auto_validate, i, fstate, cur, data,
                   processed_files, errors, log, apiCalls, progress, df, outcome, attempts, validateVars, textVars>>

\* faulty variant of the stop: the error is shown but the script goes on
MainStopMissing ==
    /\ pc = "main"
    /\ N > 0
    /\ client = "none"
    /\ pc' = "loop"
    /\ errors' = Append(errors, [file |-> 0, reason |-> "Groq API key not configured"])
    /\ UNCHANGED <<client, uploaded_files, auto_validate, i, fstate, cur, data,
                   processed_files, log, apiCalls, progress, df, outcome, attempts, validateVars, textVars>>

\* files uploaded, client is None: st.error and st.stop()
MainStop ==
    /\ pc = "main"
    /\ N > 0
    /\ client = "none"
    /\ pc' = "stopped"
    /\ errors' = Append(errors, [file |-> 0, reason |-> "Groq API key not configured"])
    /\ UNCHANGED <<client, uploaded_files, auto_validate, i, fstate, cur, data,
                   processed_files, log, apiCalls, progress, df, outcome, attempts, validateVars, textVars>>

\* files uploaded, client configured: process_invoices is entered
MainProcess ==
    /\ pc = "main"
    /\ N > 0
    /\ client # "none"
    /\ pc' = "loop"
    /\ UNCHANGED <<client, uploaded_files, auto_validate, i, fstate, cur, data,
                   processed_files, errors, log, apiCalls, progress, df, outcome, attempts, validateVars, textVars>>

(***************************************************************************)
(* process_invoices: one iteration of the loop, step by step               *)
(***************************************************************************)
InLoop == pc = "loop" /\ i <= N

\* faulty variant of the except block: it leaves the loop instead of going on
HandlerFailsBreak(reason) ==
    /\ fstate' = [fstate EXCEPT ![i] = "Failed"]
    /\ log' = Append(log, [level |-> "error", file |-> uploaded_files[i], reason |-> reason])
    /\ errors' = Append(errors, [file |-> uploaded_files[i], reason |-> reason])
    /\ progress' = i
    /\ i' = N + 1
    /\ cur' = NoJson

\* faulty variant of the except block: it starts the same file again
HandlerFailsRetry(reason) ==
    /\ fstate' = [fstate EXCEPT ![i] = "Pending"]
    /\ log' = Append(log, [level |-> "error", file |-> uploaded_files[i], reason |-> reason])
    /\ errors' = Append(errors, [file |-> uploaded_files[i], reason |-> reason])
    /\ progress' = progress
    /\ i' = i
    /\ cur' = NoJson

\* the except block: log and show the file name and the reason, then the
\* progress update at the end of the iteration
HandlerFails(reason) ==
    /\ fstate' = [fstate EXCEPT ![i] = "Failed"]
    /\ log' = Append(log, [level |-> "error", file |-> uploaded_files[i], reason |-> reason])
    /\ errors' = Append(errors, [file |-> uploaded_files[i], reason |-> reason])
    /\ progress' = i
    /\ i' = i + 1
    /\ cur' = NoJson

\* the texts of the previous iteration are dead when the next one starts:
\* full_response was a local of extract_invoice_data, and extracted_json is
\* assigned again before it is read
NewIteration ==
    /\ full_response' = <<>>
    /\ json_string' = <<>>
    /\ rfile' = 0

\* read_pdf returns the text
ReadPdf ==
    /\ InLoop
    /\ fstate[i] = "Pending"
    /\ fstate' = [fstate EXCEPT ![i] = "TextExtracted"]
    /\ attempts' = [attempts EXCEPT ![i] = @ + 1]
    /\ NewIteration
    /\ UNCHANGED <<client, uploaded_files, auto_validate, pc, i, cur, data,
                   processed_files, errors, log, apiCalls, progress, df, outcome, validateVars>>

\* read_pdf raises
ReadPdfRaises ==
    /\ InLoop
    /\ fstate[i] = "Pending"
    /\ HandlerFails("read_pdf")
    /\ attempts' = [attempts EXCEPT ![i] = @ + 1]
    /\ outcome' = [outcome EXCEPT ![i] = "read_raises"]
    /\ NewIteration
    /\ UNCHANGED <<client, uploaded_files, auto_validate, pc, data,
                   processed_files, apiCalls, df, validateVars>>

\* extracted_json = extract_invoice_data(pdf_text)
ExtractInvoiceData ==
    /\ InLoop
    /\ fstate[i] = "TextExtracted"
    /\ \E answer \in AIOutcomes :
          LET res == extract_invoice_data(client, answer) IN
          /\ cur' = res.json
          /\ apiCalls' = IF res.called THEN apiCalls + 1 ELSE apiCalls
          /\ errors' = errors \o res.shown
          /\ outcome' = [outcome EXCEPT ![i] =
                IF ~res.called THEN "no_client"
                ELSE IF answer.kind = "raises" THEN "api_raises" ELSE answer.kind]
    /\ fstate' = [fstate EXCEPT ![i] = "AIResponseReceived"]
    /\ UNCHANGED <<client, uploaded_files, auto_validate, pc, i, data,
                   processed_files, log, progress, df, attempts, validateVars, textVars>>

\* data_dict = json.loads(extracted_json) succeeds
JsonLoads ==
    /\ InLoop
    /\ fstate[i] = "AIResponseReceived"
    /\ cur.kind # "invalid"
    /\ fstate' = [fstate EXCEPT ![i] = "Parsed"]
    /\ UNCHANGED <<client, uploaded_files, auto_validate, pc, i, cur, data,
                   processed_files, errors, log, apiCalls, progress, df, outcome, attempts, validateVars, textVars>>

\* json.loads raises
JsonLoadsRaises ==
    /\ InLoop
    /\ fstate[i] = "AIResponseReceived"
    /\ cur.kind = "invalid"
    /\ HandlerFails("JSONDecodeError")
    /\ UNCHANGED <<client, uploaded_files, auto_validate, pc, data,
                   processed_files, apiCalls, df, outcome, attempts, validateVars, textVars>>

\* "error" in data_dict: st.error without the file name, then `continue`,
\* which also skips the progress update
SkipApiError ==
    /\ InLoop
    /\ fstate[i] = "Parsed"
    /\ cur.kind = "error"
    /\ errors' = Append(errors, [file |-> 0, reason |-> cur.msg])
    /\ fstate' = [fstate EXCEPT ![i] = "Failed"]
    /\ i' = i + 1
    /\ cur' = NoJson
    /\ UNCHANGED <<client, uploaded_files, auto_validate, pc, data,
                   processed_files, log, apiCalls, progress, df, outcome, attempts, validateVars, textVars>>

\* the decoded value is no dict: validate_invoice_data swallows its own
\* AttributeError, then data_dict['source_file'] = ... raises TypeError
TagRaises ==
    /\ InLoop
    /\ fstate[i] = "Parsed"
    /\ cur.kind = "list"
    /\ HandlerFails("TypeError")
    /\ UNCHANGED <<client, uploaded_files, auto_validate, pc, data,
                   processed_files, apiCalls, df, outcome, attempts, validateVars, textVars>>

\* the record a dict without "error" becomes
Record(d, name) == [validate_invoice_data(d) EXCEPT !["source_file"] = name]

\* validate, tag with source_file, append, count, log, update the progress
AppendRecord ==
    /\ InLoop
    /\ fstate[i] = "Parsed"
    /\ cur.kind = "object"
    /\ data' = Append(data, Record(cur.d, uploaded_files[i]))
    /\ processed_files' = processed_files + 1
    /\ log' = Append(log, [level |-> "info", file |-> uploaded_files[i], reason |-> "ok"])
    /\ fstate' = [fstate EXCEPT ![i] = "Appended"]
    /\ progress' = i
    /\ i' = i + 1
    /\ cur' = NoJson
    /\ UNCHANGED <<client, uploaded_files, auto_validate, pc, errors,
                   apiCalls, df, outcome, attempts, validateVars, textVars>>

\* the loop is over: the summary line and return pd.DataFrame(data)
Return ==
    /\ pc = "loop"
    /\ i > N
    /\ df' = DataFrame(data)
    /\ pc' = "returned"
    /\ UNCHANGED <<client, uploaded_files, auto_validate, i, fstate, cur, data,
                   processed_files, errors, log, apiCalls, progress, outcome, attempts, validateVars, textVars>>

\* if auto_validate and len(df) > 0: df = df.apply(validate_invoice_data, axis=1)
AutoValidate ==
    /\ pc = "returned"
    /\ df' = IF auto_validate /\ Len(df) > 0 THEN ApplyValidate(df) ELSE df
    /\ pc' = "shown"
    /\ UNCHANGED <<client, uploaded_files, auto_validate, i, fstate, cur, data,
                   processed_files, errors, log, apiCalls, progress, outcome, attempts, validateVars, textVars>>

Next ==
    \/ MainNoFiles
    \/ MainStop
    \/ MainProcess
    \/ ReadPdf
    \/ ReadPdfRaises
    \/ ExtractInvoiceData
    \/ JsonLoads
    \/ JsonLoadsRaises
    \/ SkipApiError
    \/ TagRaises
    \/ AppendRecord
    \/ Return
    \/ AutoValidate

Spec == Init /\ [][Next]_vars

\* the loop is sequential, synchronous code: a step that can be taken is taken
FairSpec == Spec /\ WF_vars(Next)

(***************************************************************************)
(* Normalization model: validate_invoice_data applied to one raw payload,  *)
(* then applied again to its own result                                    *)
(***************************************************************************)
\* raw values of total_amount and amount_due
RawMain ==
    {Absent, Null, Num(-5), Num(0), Num(40), Num(50), Num(100),
     Str(<<>>), Str(<<"0">>), Str(<<"4", "0">>), Str(<<"1", "0", "0">>),
     Str(<<"-", "5">>), Str(<<"a", "b", "c">>), Str(<<"i", "n", "f">>),
     Str(<<"n", "a", "n">>)}

\* raw values of subtotal_amount, tax_amount and discount_amount
RawSide == {Absent, Num(20), Str(<<"2", "0">>), Str(<<"a", "b", "c">>)}

\* payment_status as the AI service sends it
RawStatus == {"absent", "paid", "unpaid", "partial"}

RawPayloads ==
    {Payload(sub, tax, disc, total, due, status) :
        sub \in RawSide, tax \in RawSide, disc \in RawSide,
        total \in RawMain, due \in RawMain, status \in RawStatus}

InitValidate ==
    /\ client = "groq"
    /\ uploaded_files = <<>>
    /\ auto_validate = TRUE
    /\ pc = "idle"
    /\ i = 1
    /\ fstate = <<>>
    /\ cur = NoJson
    /\ data = <<>>
    /\ processed_files = 0
    /\ errors = <<>>
    /\ log = <<>>
    /\ apiCalls = 0
    /\ progress = 0
    /\ df = <<>>
    /\ outcome = <<>>
    /\ attempts = <<>>
    /\ vraw \in RawPayloads
    /\ vrec = <<>>
    /\ vcount = 0
    /\ full_response = <<>>
    /\ json_string = <<>>
    /\ rfile = 0

\* one application: to the raw payload first, to the previous result after
Validate ==
    /\ vcount < 2
    /\ vrec' = Append(vrec, validate_invoice_data(IF vcount = 0 THEN vraw ELSE vrec[vcount]))
    /\ vcount' = vcount + 1
    /\ UNCHANGED <<batchVars, vraw, textVars>>

NextValidate == Validate

SpecValidate == InitValidate /\ [][NextValidate]_vars

(***************************************************************************)
(* Properties of the normalization (checked under SpecValidate)            *)
(***************************************************************************)
\* a JSON number >= 0
IsNonNegNumber(v) == v.t = "num" /\ v.n >= 0

IsMissing(v) == v.t \in {"absent", "null"}

\* a string float() reads as a finite number
IsNumericString(v) == v.t = "str" /\ IsDigits(StrBody(v.s))

\* a non-empty string float() does not read as a finite number
IsNonNumericString(v) == v.t = "str" /\ v.s # <<>> /\ ~IsDigits(StrBody(v.s))

\* the status the documented rule gives: paid when nothing is due, partial
\* when part of the total is due, unpaid otherwise
RuleStatus(total, due) ==
    IF due = 0 THEN "paid" ELSE IF due < total THEN "partial" ELSE "unpaid"

\* C1: for every record whose total_amount and amount_due are non-negative
\* numbers (a null total counted as 0, a null amount_due as the total),
\* payment_status is 'paid' when amount_due = 0, 'partial' when
\* 0 < amount_due < total_amount, 'unpaid' when amount_due >= total_amount;
\* so (100, 0) is paid, (100, 40) partial, (100, 100) unpaid, (0, 0) paid.
C1_StatusFollowsRule ==
    vcount >= 1 =>
        LET t == vraw.total_amount
            d == vraw.amount_due
            total == IF IsMissing(t) THEN 0 ELSE t.n
            due == IF IsMissing(d) THEN total ELSE d.n
        IN  (IsNonNegNumber(t) \/ IsMissing(t)) /\ (IsNonNegNumber(d) \/ IsMissing(d))
            => vrec[1].payment_status = RuleStatus(total, due)

\* C4: for each amount field, a valid numeric string is stored as its numeric
\* value; a non-numeric string becomes null, and the other amount fields of
\* the record are still normalized (every numeric string among them is
\* stored as its number).
C4_AmountsCoerced ==
    vcount >= 1 =>
        \A k \in 1..Len(Amounts) :
            LET raw == vraw[Amounts[k]]
                out == vrec[1][Amounts[k]]
            IN  /\ IsNumericString(raw) => out = Float(raw)
                /\ IsNonNumericString(raw) => out = Null

\* the floats of a returned record; anything that is no float counts as null
AsFloat(v) == IF v.t \in {"num", "inf", "nan"} THEN v ELSE Null

\* the status the if/elif/else derives from the amounts of a record
DerivedStatus(d) ==
    LET total == OrElse(AsFloat(d.total_amount), Num(0))
        due   == OrElse(AsFloat(d.amount_due), total)
    IN  PaymentStatus(due, total)

\* C5: for every payload, one that carries a payment_status and one with a
\* non-numeric amount included, the payment_status of the returned record is
\* the value derived from its amount_due and total_amount; the status of the
\* input is never the one that is kept.
C5_StatusAlwaysDerived ==
    vcount >= 1 => vrec[1].payment_status = DerivedStatus(vrec[1])

\* equal amounts; absent and null are the same missing value
SameAmount(a, b) == (IsMissing(a) /\ IsMissing(b)) \/ a = b

\* C6: when amount_due is absent or null in the raw payload, the returned
\* record has amount_due equal to its total_amount, and payment_status
\* 'unpaid' when total_amount > 0.
C6_MissingDueDefaultsToTotal ==
    vcount >= 1 /\ IsMissing(vraw.amount_due) =>
        /\ SameAmount(vrec[1].amount_due, vrec[1].total_amount)
        /\ (vrec[1].total_amount.t = "num" /\ vrec[1].total_amount.n > 0
              => vrec[1].payment_status = "unpaid")

\* C9: in every returned record each amount field is absent (null) or a
\* finite number >= 0, whatever the raw value was.
C9_AmountsFiniteNonNegative ==
    vcount >= 1 =>
        \A k \in 1..Len(Amounts) :
            LET out == vrec[1][Amounts[k]]
            IN  IsMissing(out) \/ (out.t = "num" /\ out.n >= 0)

(***************************************************************************)
(* Properties of the batch (checked under Spec and FairSpec)               *)
(***************************************************************************)
\* process_invoices has returned
Returned == pc \in {"returned", "shown"}

\* the source_file of each record, in the order of the list
Names(rows) == [r \in 1..Len(rows) |-> rows[r].source_file]

\* the files among the first n, in upload order, whose outcome is in kinds
FilesWith(n, kinds) ==
    SelectSeq(SubSeq(uploaded_files, 1, n), LAMBDA f : outcome[f] \in kinds)

\* C2 (as stated): the records are exactly the files whose JSON decoding
\* succeeded and whose payload has no 'error' key, one record each, in input
\* order, and every file has been processed when the batch returns.
C2_RecordPerDecodedFile ==
    /\ Names(data) = FilesWith(i - 1, {"object", "list"})
    /\ Returned => \A k \in 1..N : outcome[k] # "pending"

\* C2 (amended): the records are exactly the files whose response decoded to
\* a JSON object without the 'error' key, one record each, in input order
\* with no reordering or deduplication, and a failure of one file never keeps
\* a later file from being processed: when the batch returns every file has
\* been attempted and has reached Appended or Failed.
C2_RecordPerDecodedObject ==
    /\ Names(data) = FilesWith(i - 1, {"object"})
    /\ Returned => \A k \in 1..N : outcome[k] # "pending" /\ fstate[k] \in Terminal
    /\ \A k \in 1..N : fstate[k] = "Appended" <=> (k < i /\ outcome[k] = "object")

\* three files, the AI call of the second fails: records of files 1 and 3
C2_Witness ==
    /\ Returned
    /\ N = 3
    /\ outcome = <<"object", "api_raises", "object">>
    /\ Names(data) = <<1, 3>>

\* the st.error entries that name file k
EntriesOf(k) == {e \in 1..Len(errors) : errors[e].file = uploaded_files[k]}

\* C3: every file that produces no record has exactly one failure entry,
\* which carries the file name and the reason.
C3_FailureNamesFile ==
    \A k \in 1..N : fstate[k] = "Failed" => Cardinality(EntriesOf(k)) = 1

\* C7: with client None the remote service is never called:
\* extract_invoice_data returns the 'API key not configured' payload without
\* a call, the run is stopped before process_invoices starts, and no record
\* is produced.
C7_NoCallWithoutClient ==
    client = "none" =>
        /\ apiCalls = 0
        /\ pc \in {"main", "idle", "stopped"}
        /\ data = <<>> /\ df = <<>>
        /\ \A k \in 1..N : fstate[k] = "Pending"
        /\ \A answer \in AIOutcomes :
              /\ ~extract_invoice_data(client, answer).called
              /\ extract_invoice_data(client, answer).json
                    = ErrorJson("API key not configured")

\* files uploaded without a credential: the run has stopped
C7_Witness == client = "none" /\ N > 0 /\ pc = "stopped" /\ Len(errors) = 1

\* C8: the auto-validate pass applies validate_invoice_data a second time to
\* every row; it leaves payment_status and every amount field as the first
\* application left them.
C8_SecondPassChangesNothing ==
    pc = "shown" /\ auto_validate =>
        \A r \in 1..Len(data) :
            /\ df[r].payment_status = data[r].payment_status
            /\ \A k \in 1..Len(Amounts) :
                  \/ df[r][Amounts[k]] = data[r][Amounts[k]]
                  \/ IsMissing(data[r][Amounts[k]]) /\ df[r][Amounts[k]] = NaN

\* the state invariant of the loop: each file started at most once, in
\* order, the next one only after the previous one is Appended or Failed,
\* and the success counter equal to the number of records
C10_Sequential ==
    /\ \A k \in 1..N : attempts[k] = IF fstate[k] = "Pending" THEN 0 ELSE 1
    /\ \A k \in 1..N : k < i <=> fstate[k] \in Terminal
    /\ \A k \in 1..N : k > i => fstate[k] = "Pending"
    /\ processed_files = Len(data)
    /\ processed_files = Cardinality({k \in 1..N : fstate[k] = "Appended"})
    /\ Returned => i = N + 1

\* a file that is Appended or Failed stays so, and is not started again
C10_TerminalStays ==
    \A k \in 1..N : fstate[k] \in Terminal => fstate'[k] = fstate[k] /\ attempts'[k] = attempts[k]

\* C10: in one run every file is attempted exactly once, in input order,
\* file i+1 not before file i is Appended or Failed; a file that is Appended
\* or Failed never leaves that state and is never retried; every file
\* reaches one of the two, and the run ends after the last file with the
\* success count equal to the number of records.
C10_RunToCompletion ==
    /\ []C10_Sequential
    /\ [][C10_TerminalStays]_vars
    /\ (pc = "loop") ~> (Returned /\ \A k \in 1..N : fstate[k] \in Terminal)

\* a finished run in which one file failed and another was appended
C10_Witness ==
    /\ Returned
    /\ N = MaxFiles
    /\ \E k \in 1..N : fstate[k] = "Failed"
    /\ \E k \in 1..N : fstate[k] = "Appended"
    /\ processed_files = Len(data)

(***************************************************************************)
(* Response model: the text the service answers with, the slice            *)
(* extract_invoice_data cuts out of it, and what json.loads makes of the   *)
(* slice.  Texts are sequences of characters over ResponseChars; over      *)
(* these characters the valid JSON texts are "{}" and the arrays "[]",     *)
(* "[{}]", "[[]]", ... (one element at most: there is no comma).           *)
(***************************************************************************)
MaxResponseLen == 4

TextFiles == 2

ResponseChars == {"{", "}", "[", "]", "x"}

Responses == UNION {[1..n -> ResponseChars] : n \in 0..MaxResponseLen}

\* str.find(c): the 0-based index of the first c, -1 when there is none
Find(s, c) ==
    IF \E k \in 1..Len(s) : s[k] = c
    THEN (CHOOSE k \in 1..Len(s) : s[k] = c /\ \A j \in 1..(k - 1) : s[j] # c) - 1
    ELSE -1

\* str.rfind(c): the 0-based index of the last c, -1 when there is none
RFind(s, c) ==
    IF \E k \in 1..Len(s) : s[k] = c
    THEN (CHOOSE k \in 1..Len(s) : s[k] = c /\ \A j \in (k + 1)..Len(s) : s[j] # c) - 1
    ELSE -1

\* a slice bound as Python reads it: negative counts from the end, and the
\* result is clamped to 0..len
PyIndex(s, a) ==
    LET b == IF a < 0 THEN a + Len(s) ELSE a
    IN  IF b < 0 THEN 0 ELSE IF b > Len(s) THEN Len(s) ELSE b

\* s[a:b]
PySlice(s, a, b) ==
    IF PyIndex(s, a) >= PyIndex(s, b) THEN <<>>
    ELSE SubSeq(s, PyIndex(s, a) + 1, PyIndex(s, b))

\* (faulty variant) end_index without the + 1: the last '}' is cut off
JsonStringShort(full) ==
    LET start_index == Find(full, "{")
        end_index   == RFind(full, "}")
    IN  IF start_index # -1 THEN PySlice(full, start_index, end_index) ELSE full

\* "Extract JSON safely": the text extract_invoice_data returns for a response
JsonString(full) ==
    LET start_index == Find(full, "{")
        end_index   == RFind(full, "}") + 1
    IN  IF start_index # -1 THEN PySlice(full, start_index, end_index) ELSE full

\* json.loads accepts the text
RECURSIVE IsJsonValue(_)
IsJsonValue(t) ==
    \/ t = <<"{", "}">>
    \/ /\ Len(t) >= 2
       /\ t[1] = "[" /\ t[Len(t)] = "]"
       /\ (Len(t) = 2 \/ IsJsonValue(SubSeq(t, 2, Len(t) - 1)))

\* what json.loads makes of the text: it raises, or returns the empty dict,
\* or returns a list
Decoded(t) ==
    IF ~IsJsonValue(t) THEN Json("invalid", EmptyPayload, "")
    ELSE IF t[1] = "{" THEN Json("object", EmptyPayload, "")
    ELSE Json("list", EmptyPayload, "")

InitText ==
    /\ client = "groq"
    /\ \E n \in 1..TextFiles : uploaded_files = [k \in 1..n |-> k]
    /\ auto_validate = FALSE
    /\ pc = "main"
    /\ i = 1
    /\ fstate = [k \in 1..Len(uploaded_files) |-> "Pending"]
    /\ cur = NoJson
    /\ data = <<>>
    /\ processed_files = 0
    /\ errors = <<>>
    /\ log = <<>>
    /\ apiCalls = 0
    /\ progress = 0
    /\ df = <<>>
    /\ outcome = [k \in 1..Len(uploaded_files) |-> "pending"]
    /\ attempts = [k \in 1..Len(uploaded_files) |-> 0]
    /\ vraw = EmptyPayload
    /\ vrec = <<>>
    /\ vcount = 0
    /\ full_response = <<>>
    /\ json_string = <<>>
    /\ rfile = 0

\* extract_invoice_data when the service answers with a text
ExtractResponse ==
    /\ InLoop
    /\ fstate[i] = "TextExtracted"
    /\ \E text \in Responses :
          LET res == extract_invoice_data(client, Decoded(JsonString(text))) IN
          /\ full_response' = text
          /\ json_string' = JsonString(text)
          /\ cur' = res.json
          /\ apiCalls' = IF res.called THEN apiCalls + 1 ELSE apiCalls
          /\ errors' = errors \o res.shown
          /\ outcome' = [outcome EXCEPT ![i] = res.json.kind]
    /\ rfile' = uploaded_files[i]
    /\ fstate' = [fstate EXCEPT ![i] = "AIResponseReceived"]
    /\ UNCHANGED <<client, uploaded_files, auto_validate, pc, i, data,
                   processed_files, log, progress, df, attempts, validateVars>>

\* extract_invoice_data when the call of the service raises
ExtractCallRaises ==
    /\ InLoop
    /\ fstate[i] = "TextExtracted"
    /\ LET res == extract_invoice_data(client, Json("raises", EmptyPayload, "")) IN
          /\ cur' = res.json
          /\ apiCalls' = IF res.called THEN apiCalls + 1 ELSE apiCalls
          /\ errors' = errors \o res.shown
    /\ outcome' = [outcome EXCEPT ![i] = "api_raises"]
    /\ fstate' = [fstate EXCEPT ![i] = "AIResponseReceived"]
    /\ UNCHANGED <<client, uploaded_files, auto_validate, pc, i, data,
                   processed_files, log, progress, df, attempts, validateVars, textVars>>

NextText ==
    \/ MainProcess
    \/ ReadPdf
    \/ ReadPdfRaises
    \/ ExtractResponse
    \/ ExtractCallRaises
    \/ JsonLoads
    \/ JsonLoadsRaises
    \/ SkipApiError
    \/ TagRaises
    \/ AppendRecord
    \/ Return

SpecText == InitText /\ [][NextText]_vars

(***************************************************************************)
(* Properties of the response handling (checked under SpecText)            *)
(***************************************************************************)
\* 1-based position of the first '{' of the text, 0 when there is none
FirstOpen(t) ==
    IF \A k \in 1..Len(t) : t[k] # "{" THEN 0
    ELSE CHOOSE k \in 1..Len(t) : t[k] = "{" /\ \A j \in 1..Len(t) : t[j] = "{" => k <= j

\* 1-based position of the last '}' of the text, 0 when there is none
LastClose(t) ==
    IF \A k \in 1..Len(t) : t[k] # "}" THEN 0
    ELSE CHOOSE k \in 1..Len(t) : t[k] = "}" /\ \A j \in 1..Len(t) : t[j] = "}" => j <= k

\* the text has a '{' and, after it, a '}'
Enclosed(t) == FirstOpen(t) # 0 /\ LastClose(t) # 0 /\ FirstOpen(t) < LastClose(t)

\* C11: for every response text, extract_invoice_data returns the substring
\* from the first '{' to the last '}' of the response, both included; when
\* the response has no '{', no '}', or its last '}' before its first '{',
\* the text handed to json.loads yields no record: the file ends Failed with
\* an entry of its own, no record is appended for it, and the records of the
\* other files and the rest of the loop are not affected.
C11_SliceAndIsolatedFailure ==
    rfile # 0 =>
        /\ Enclosed(full_response) =>
              json_string = SubSeq(full_response, FirstOpen(full_response),
                                   LastClose(full_response))
        /\ ~Enclosed(full_response) =>
              /\ Decoded(json_string).kind # "object"
              /\ fstate[rfile] # "Appended"
              /\ \A r \in 1..Len(data) : data[r].source_file # rfile
              /\ rfile < i => /\ fstate[rfile] = "Failed"
                              /\ Cardinality(EntriesOf(rfile)) = 1
              /\ Names(data) = FilesWith(i - 1, {"object"})
              /\ pc \in {"loop", "returned"}
              /\ Returned => \A k \in 1..N : fstate[k] \in Terminal

\* two files: the first gave a record, the second answered "}x{", for which
\* the empty slice is handed to json.loads, and failed alone
C11_Witness ==
    /\ Returned
    /\ fstate = <<"Appended", "Failed">>
    /\ rfile = 2
    /\ full_response = <<"}", "x", "{">>
    /\ json_string = <<>>
    /\ Names(data) = <<1>>

\* a response with text around the object: the slice is the object
C11_SliceWitness ==
    /\ full_response = <<"x", "{", "}", "x">>
    /\ json_string = <<"{", "}">>
    /\ rfile = 1 /\ fstate[1] = "Appended"

====
